---- MODULE Spec2Model ----
(***************************************************************************)
(* Self-hosted authentication core of the go-b2b-starter backend: the      *)
(* local auth Adapter (Register, Login, RefreshTokens, Logout, LogoutAll,  *)
(* ChangePassword, VerifyToken), its JWTManager and PasswordHasher, and    *)
(* the SQL statements of the user and refresh-token repositories.          *)
(*                                                                         *)
(* Every repository call is one SQL statement and is one atomic step; a    *)
(* handler that makes several calls is a process that other requests       *)
(* interleave with.  A repository call or a signature may fail; the        *)
(* handler then takes the error branch the code has for it.                *)
(* Time is a counter of ticks (one tick stands for 15 minutes).            *)
(***************************************************************************)
EXTENDS Integers, Sequences, FiniteSets, TLC

VARIABLES
    now,             \* time.Now() / SQL NOW(), in ticks
    users,           \* table users.users: sequence of rows, id = index (SERIAL)
    refresh_tokens,  \* table users.refresh_tokens: set of rows
    pc,              \* per request slot: the statement the handler is at
    loc,             \* per request slot: the handler's arguments and locals
    tokens,          \* token strings handed to clients so far
    uuids,           \* number of uuid.New() draws so far
    faults,          \* number of failed repository calls / signatures so far
    last,            \* the call that returned most recently, with its result
    calls,           \* number of calls made so far
    exchanged,       \* per refresh-token id: RefreshTokens calls that returned a pair for it
    streak,          \* per user id: Login calls in a row that ended at the failed password check
    arg,             \* a direct call of a PasswordHasher / JWTManager function: its arguments
    ret              \* what that call returned

vars == <<now, users, refresh_tokens, pc, loc, tokens, uuids, faults, last, calls,
          exchanged, streak, arg, ret>>

----------------------------------------------------------------------------
(* Bounds of the model *)

MaxTime == 2
MaxUsers == 2
MaxPairs == 3
MaxProcs == 2
MaxFaults == 1
MaxCalls == 4
MaxSeqCalls == 5

\* the clock and the calls of the runs with the store's maintenance statements
MaintMaxTime == 3

MaxMaintCalls == 4

Procs == 1..MaxProcs
NULL == 0 - 1

----------------------------------------------------------------------------
(* Config: LoadConfig defaults.  The durations are in ticks; RefreshTokenDuration
   (default 7 days) and MaxFailedAttempts (default 5) are settings read from the
   environment, taken smaller here. *)

Issuer == "go-b2b-starter"
Audience == "go-b2b-api"
AccessTokenDuration == 1
RefreshTokenDuration == 2
PasswordMinLength == 8
PasswordRequireUpper == TRUE
PasswordRequireLower == TRUE
PasswordRequireDigit == TRUE
PasswordRequireSpecial == FALSE
MaxFailedAttempts == 3
LockoutDuration == 1

\* the password policy of the Config that LoadConfig returns
Config ==
    [PasswordMinLength |-> PasswordMinLength,
     PasswordRequireUpper |-> PasswordRequireUpper,
     PasswordRequireLower |-> PasswordRequireLower,
     PasswordRequireDigit |-> PasswordRequireDigit,
     PasswordRequireSpecial |-> PasswordRequireSpecial]

----------------------------------------------------------------------------
(* Inputs *)

Emails == {"a@x.com", "b@x.com"}
GoodPw == <<"P", "a", "s", "s", "w", "0", "r", "d">>
OtherPw == <<"S", "e", "c", "r", "3", "t", "p", "w">>
WeakPw == <<"w", "e", "a", "k">>
RegisterPasswords == {GoodPw, WeakPw}
LoginPasswords == {GoodPw, OtherPw}
NewPasswords == {OtherPw, WeakPw}
\* the statuses an administrator sets
AdminStatuses == {"active", "suspended", "deleted"}

IPs == {"10.0.0.1"}
Salts == {1}

Upper == {"P", "S"}
Lower == {"a", "s", "w", "r", "d", "e", "c", "t", "p", "k", "e-acute"}
Digit == {"0", "3"}
Special == {"!"}

\* the characters that take two bytes in UTF-8 (e-acute is U+00E9, a lowercase
\* letter); the others here take one
TwoBytes == {"e-acute"}

----------------------------------------------------------------------------
(* PasswordHasher: settings, strings, Sscanf *)

\* OWASP settings of NewPasswordHasher, and the version constant of x/crypto/argon2
memory == 65536
iterations == 3
parallelism == 2
saltLength == 16
keyLength == 32
argon2Version == 19

(* Strings.  An encoded hash is a sequence of characters [ch |-> c]; a run of
   base64 text is kept as one element [b64 |-> bytes] holding the bytes it
   encodes.  Bytes are records with their length in len. *)

Ch(c) == [ch |-> c]

IsCh(x) == "ch" \in DOMAIN x

\* a string literal, from the sequence of its characters
Str(s) == [i \in 1..Len(s) |-> Ch(s[i])]

DecimalDigits == <<"0", "1", "2", "3", "4", "5", "6", "7", "8", "9">>

DecimalChars == {Ch(DecimalDigits[d]) : d \in 1..10}

IsDecimal(x) == x \in DecimalChars

\* the value of each decimal digit character
Values == [x \in DecimalChars |-> (CHOOSE d \in 1..10 : x = Ch(DecimalDigits[d])) - 1]

DigitVal(x) == Values[x]

Dollar == Ch("$")
Space == Ch(" ")
Underscore == Ch("_")

\* Sprintf("%d") of a natural number
RECURSIVE Itoa(_)
Itoa(n) ==
    IF n < 10 THEN <<Ch(DecimalDigits[n + 1])>>
    ELSE Append(Itoa(n \div 10), Ch(DecimalDigits[(n % 10) + 1]))

\* base64.RawStdEncoding.EncodeToString
EncodeToString(bytes) == <<[b64 |-> bytes]>>

\* base64.RawStdEncoding.EncodedLen
EncodedLen(n) == ((n * 8) + 5) \div 6

\* characters of the strings used here that are not in the base64 alphabet
NotBase64 == {"$", "=", ",", " ", "_", "-", "!"}

\* the length of string s in characters
RECURSIVE StrLen(_)
StrLen(s) ==
    IF s = <<>> THEN 0
    ELSE (IF IsCh(Head(s)) THEN 1 ELSE EncodedLen(Head(s).b64.len)) + StrLen(Tail(s))

\* base64.RawStdEncoding.DecodeString: [err, bytes]
DecodeString(s) ==
    IF \E i \in 1..Len(s) : IsCh(s[i]) /\ s[i].ch \in NotBase64
    THEN [err |-> "illegal base64 data", bytes |-> [raw |-> <<>>, len |-> 0]]
    ELSE IF StrLen(s) % 4 = 1
    THEN [err |-> "illegal base64 data", bytes |-> [raw |-> <<>>, len |-> 0]]
    ELSE IF Len(s) = 1 /\ ~IsCh(s[1])
    THEN [err |-> "", bytes |-> s[1].b64]
    ELSE [err |-> "", bytes |-> [raw |-> s, len |-> (StrLen(s) * 6) \div 8]]

\* strings.Split(s, "$"): the parts between the separators, in order
Split(s) ==
    LET seps == {i \in 1..Len(s) : s[i] = Dollar}
        \* the position of the k-th separator; 0 and Len(s) + 1 stand for the ends
        sep(k) == IF k = 0 THEN 0
                  ELSE IF k > Cardinality(seps) THEN Len(s) + 1
                  ELSE CHOOSE i \in seps : Cardinality({j \in seps : j < i}) = k - 1
    IN  [k \in 1..(Cardinality(seps) + 1) |-> SubSeq(s, sep(k - 1) + 1, sep(k) - 1)]

(* fmt.Sscanf.  Numbers are [val |-> n], or [big |-> digits] when they have
   more than nine significant digits. *)

\* the least position from pos on whose character is not in set chars, or the
\* position after the end of the input
Past(in, pos, chars) ==
    LET stops == {i \in pos..Len(in) : in[i] \notin chars}
    IN  IF stops = {} THEN Len(in) + 1
        ELSE CHOOSE i \in stops : \A j \in stops : i <= j

\* ss.SkipSpace: the position of the first character that is not a space
SkipSpace(in, pos) == Past(in, pos, {Space})

\* ss.scanNumber: the position after the run of characters of "0123456789_"
scanNumber(in, pos) == Past(in, pos, DecimalChars \cup {Underscore})

RECURSIVE StripZeros(_)
StripZeros(tok) ==
    IF Len(tok) > 1 /\ Head(tok) = Ch("0") THEN StripZeros(Tail(tok)) ELSE tok

\* the number that the first n digits of tok write
RECURSIVE Value(_, _)
Value(tok, n) == IF n = 0 THEN 0 ELSE (10 * Value(tok, n - 1)) + DigitVal(tok[n])

\* digit strings a and b of equal length: a is the greater number
RECURSIVE Greater(_, _)
Greater(a, b) ==
    IF a = <<>> THEN FALSE
    ELSE IF Head(a) # Head(b) THEN DigitVal(Head(a)) > DigitVal(Head(b))
    ELSE Greater(Tail(a), Tail(b))

\* the greatest uint8, uint32 and int, in digits
MaxUint8 == Str(<<"2", "5", "5">>)
MaxUint32 == Str(<<"4", "2", "9", "4", "9", "6", "7", "2", "9", "5">>)
MaxInt == Str(<<"9", "2", "2", "3", "3", "7", "2", "0", "3", "6",
                "8", "5", "4", "7", "7", "5", "8", "0", "7">>)

MaxOf(bits) == IF bits = 8 THEN MaxUint8 ELSE IF bits = 32 THEN MaxUint32 ELSE MaxInt

\* strconv.ParseUint(tok, 10, 64) and the overflow check of scanUint and scanInt
\* the number that digits, the token without its leading zeros, writes, if it
\* is at most max
parseDigits(tok, digits, max) ==
    IF \E i \in 1..Len(tok) : tok[i] = Underscore
    THEN [err |-> "invalid syntax", num |-> [val |-> 0]]
    ELSE IF \/ Len(digits) > Len(max)
            \/ Len(digits) = Len(max) /\ Greater(digits, max)
    THEN [err |-> "integer overflow", num |-> [val |-> 0]]
    ELSE IF Len(digits) > 9
    THEN [err |-> "", num |-> [big |-> digits]]
    ELSE [err |-> "", num |-> [val |-> Value(digits, Len(digits))]]

ParseUint(tok, bits) == parseDigits(tok, StripZeros(tok), MaxOf(bits))

\* the opposite of a number
Negated(num) ==
    IF DOMAIN num = {"val"} THEN [val |-> 0 - num.val] ELSE [big |-> <<Ch("-")>> \o num.big]

\* ss.scanInt and ss.scanUint for the verb %d: [err, num, pos]
\* ss.accept(sign): the character at start is a sign, for a signed operand
accept(in, start, verb) ==
    verb.signed /\ start <= Len(in) /\ in[start] \in {Ch("+"), Ch("-")}

\* the operand scanned: the input had its first non-space character at start, a
\* sign there or not, its digits from first to end - 1, parsed as given
scanned(in, start, signed, first, end, parsed) ==
    IF start > Len(in)
    THEN [err |-> "unexpected EOF", num |-> [val |-> 0], pos |-> start]
    ELSE IF end = first
    THEN [err |-> "expected integer", num |-> [val |-> 0], pos |-> first]
    ELSE IF parsed.err # ""
    THEN [err |-> parsed.err, num |-> [val |-> 0], pos |-> end]
    ELSE [err |-> "", pos |-> end,
          num |-> IF signed /\ in[start] = Ch("-") THEN Negated(parsed.num)
                  ELSE parsed.num]

\* ss.getBase and ss.scanNumber, then the conversion of the token
scanToken(in, start, signed, first, end, verb) ==
    scanned(in, start, signed, first, end, ParseUint(SubSeq(in, first, end - 1), verb.bits))

scanDigits(in, start, signed, first, verb) ==
    scanToken(in, start, signed, first, scanNumber(in, first), verb)

scanSign(in, start, signed, verb) ==
    scanDigits(in, start, signed, IF signed THEN start + 1 ELSE start, verb)

scanFrom(in, start, verb) == scanSign(in, start, accept(in, start, verb), verb)

scanOne(in, pos, verb) == scanFrom(in, SkipSpace(in, pos), verb)

\* the verb %d with an int, a uint32 and a uint8 operand
IntVerb == [signed |-> TRUE, bits |-> 64]
Uint32Verb == [signed |-> FALSE, bits |-> 32]
Uint8Verb == [signed |-> FALSE, bits |-> 8]

\* ss.doScanf from position pos: a character of the format must be the next
\* character of the input, a verb scans a number; input left over is not read
RECURSIVE doScanf(_, _, _, _)
\* the rest of the format after the operand n was scanned for a verb
afterVerb(in, n, format, nums) ==
    IF n.err # "" THEN [err |-> n.err, nums |-> <<>>]
    ELSE doScanf(in, n.pos, Tail(format), Append(nums, n.num))

doScanf(in, pos, format, nums) ==
    IF format = <<>> THEN [err |-> "", nums |-> nums]
    ELSE IF IsCh(Head(format))
    THEN IF pos > Len(in) THEN [err |-> "unexpected EOF", nums |-> <<>>]
         ELSE IF in[pos] # Head(format)
         THEN [err |-> "input does not match format", nums |-> <<>>]
         ELSE doScanf(in, pos + 1, Tail(format), nums)
    ELSE afterVerb(in, scanOne(in, pos, Head(format)), format, nums)

Sscanf(str, format) == doScanf(str, 1, format, <<>>)

\* the formats "v=%d" and "m=%d,t=%d,p=%d" of decodeHash
VersionFormat == Str(<<"v", "=">>) \o <<IntVerb>>

ParamsFormat ==
    Str(<<"m", "=">>) \o <<Uint32Verb>> \o Str(<<",", "t", "=">>) \o <<Uint32Verb>>
        \o Str(<<",", "p", "=">>) \o <<Uint8Verb>>

(* PasswordHasher *)

\* a key derivation that ignores the password
IDKey_NoPassword(password, salt, t, m, p, keyLen) ==
    [kdf |-> "argon2id", pw |-> <<>>, salt |-> salt,
     t |-> t, m |-> m, p |-> p, len |-> keyLen]

\* argon2.IDKey: the derived key is a term over everything it is derived from
IDKey(password, salt, t, m, p, keyLen) ==
    [kdf |-> "argon2id", pw |-> password, salt |-> salt,
     t |-> t, m |-> m, p |-> p, len |-> keyLen]

\* the settings of the hasher as Sprintf writes them: $argon2id$v=19$m=65536,t=3,p=2$
Settings ==
    Str(<<"$", "a", "r", "g", "o", "n", "2", "i", "d", "$", "v", "=">>)
        \o Itoa(argon2Version)
        \o Str(<<"$", "m", "=">>) \o Itoa(memory)
        \o Str(<<",", "t", "=">>) \o Itoa(iterations)
        \o Str(<<",", "p", "=">>) \o Itoa(parallelism) \o Str(<<"$">>)

\* Sprintf("$argon2id$v=%d$m=%d,t=%d,p=%d$%s$%s", ...) of Hash
Sprintf(b64Salt, b64Hash) == Settings \o b64Salt \o Str(<<"$">>) \o b64Hash

Argon2id == Str(<<"a", "r", "g", "o", "n", "2", "i", "d">>)

\* Hash, with the salt bytes that rand.Read gives: the string
\* $argon2id$v=19$m=65536,t=3,p=2$salt$hash
Hash(password, rand) ==
    LET salt == [rand |-> rand, len |-> saltLength]
        hash == IDKey(password, salt, [val |-> iterations], [val |-> memory],
                      [val |-> parallelism], keyLength)
    IN  Sprintf(EncodeToString(salt), EncodeToString(hash))

\* what decodeHash returns with an error: nil parameters, salt and key
DecodeError(err) ==
    [err |-> err, m |-> [val |-> 0], t |-> [val |-> 0], p |-> [val |-> 0],
     keyLength |-> 0, salt |-> [raw |-> <<>>, len |-> 0],
     hash |-> [raw |-> <<>>, len |-> 0]]

\* decodeHash after its two Sscanf and two DecodeString calls, in their order
decodeFields(version, params, salt, hash) ==
    IF version.err # "" THEN DecodeError("invalid version")
    ELSE IF version.nums[1] # [val |-> argon2Version]
    THEN DecodeError("incompatible argon2 version")
    ELSE IF params.err # "" THEN DecodeError("invalid parameters")
    ELSE IF salt.err # "" THEN DecodeError("invalid salt")
    ELSE IF hash.err # "" THEN DecodeError("invalid hash")
    ELSE [err |-> "", m |-> params.nums[1], t |-> params.nums[2],
          p |-> params.nums[3], keyLength |-> hash.bytes.len,
          salt |-> salt.bytes, hash |-> hash.bytes]

\* decodeHash after strings.Split
decodeParts(parts) ==
    IF Len(parts) # 6 THEN DecodeError("invalid hash format")
    ELSE IF parts[2] # Argon2id
    THEN DecodeError("unsupported hash algorithm")
    ELSE decodeFields(Sscanf(parts[3], VersionFormat), Sscanf(parts[4], ParamsFormat),
                      DecodeString(parts[5]), DecodeString(parts[6]))

\* decodeHash: the parameters, salt and key, or the error
decodeHash(encodedHash) == decodeParts(Split(encodedHash))

\* what Verify returns for the password of the hash: true and no error
Match == [ok |-> TRUE, err |-> "", panic |-> ""]

\* Verify without the comparison of the two keys
Verify_AnyKey(password, encodedHash) ==
    IF decodeHash(encodedHash).err # ""
    THEN [ok |-> FALSE, err |-> decodeHash(encodedHash).err, panic |-> ""]
    ELSE [ok |-> TRUE, err |-> "", panic |-> ""]

\* Verify after decodeHash returned d: the key derivation with the decoded
\* parameters and subtle.ConstantTimeCompare with the decoded key
compare(password, d) ==
    IF d.err # "" THEN [ok |-> FALSE, err |-> d.err, panic |-> ""]
    ELSE IF d.t = [val |-> 0]
    THEN [ok |-> FALSE, err |-> "", panic |-> "argon2: number of rounds too small"]
    ELSE IF d.p = [val |-> 0]
    THEN [ok |-> FALSE, err |-> "", panic |-> "argon2: parallelism degree too low"]
    ELSE [ok |-> d.hash = IDKey(password, d.salt, d.t, d.m, d.p, d.keyLength),
          err |-> "", panic |-> ""]

\* Verify: [ok, err], ok being the constant-time comparison of the two keys;
\* panic is the message of argon2.IDKey when it refuses the parameters
Verify(password, encodedHash) == compare(password, decodeHash(encodedHash))

\* the hashes the users table can hold: Hash of a password of a request
StoredHashes == {Hash(pw, s) : pw \in RegisterPasswords \cup NewPasswords, s \in Salts}

\* Verify(password, hash) for the passwords of the requests and these hashes,
\* computed once
Verified == [pw \in LoginPasswords, h \in StoredHashes |-> Verify(pw, h)]

Has(password, class) == \E i \in 1..Len(password) : password[i] \in class

\* len(password): the number of bytes of the string
len(password) == Len(password) + Cardinality({i \in 1..Len(password) : password[i] \in TwoBytes})

\* the rules checked before the class rules in place of the lowercase rule
ValidatePassword_DigitFirst(config, password) ==
    IF len(password) < config.PasswordMinLength THEN "min_length"
    ELSE IF config.PasswordRequireUpper /\ ~Has(password, Upper) THEN "uppercase"
    ELSE IF config.PasswordRequireDigit /\ ~Has(password, Digit) THEN "digit"
    ELSE IF config.PasswordRequireLower /\ ~Has(password, Lower) THEN "lowercase"
    ELSE IF config.PasswordRequireSpecial /\ ~Has(password, Special) THEN "special"
    ELSE ""

\* ValidatePassword of a hasher with this config: "" when the password meets the
\* policy, else the error of the first rule it fails
ValidatePassword(config, password) ==
    IF len(password) < config.PasswordMinLength THEN "min_length"
    ELSE IF config.PasswordRequireUpper /\ ~Has(password, Upper) THEN "uppercase"
    ELSE IF config.PasswordRequireLower /\ ~Has(password, Lower) THEN "lowercase"
    ELSE IF config.PasswordRequireDigit /\ ~Has(password, Digit) THEN "digit"
    ELSE IF config.PasswordRequireSpecial /\ ~Has(password, Special) THEN "special"
    ELSE ""

----------------------------------------------------------------------------
(* JWTManager *)

NoToken ==
    [typ |-> "none", jti |-> 0, uid |-> 0, email |-> "", ev |-> FALSE, role |-> "",
     iss |-> "", aud |-> {}, iat |-> 0, exp |-> 0, alg |-> "", sig |-> ""]

NoPair == [AccessToken |-> NoToken, RefreshToken |-> NoToken, ExpiresAt |-> 0, TokenType |-> ""]

Signed(typ, jti, userID, email, emailVerified, role, iat, exp) ==
    [typ |-> typ, jti |-> jti, uid |-> userID, email |-> email, ev |-> emailVerified,
     role |-> role, iss |-> Issuer, aud |-> {Audience}, iat |-> iat, exp |-> exp,
     alg |-> "RS256", sig |-> "PrivateKey"]

\* GenerateTokenPair at time t, with the two uuid draws id and id + 1
GenerateTokenPair(userID, email, emailVerified, role, t, id) ==
    [AccessToken |-> Signed("access", id, userID, email, emailVerified, role,
                            t, t + AccessTokenDuration),
     RefreshToken |-> Signed("refresh", id + 1, userID, email, emailVerified, role,
                             t, t + RefreshTokenDuration),
     ExpiresAt |-> t + AccessTokenDuration,
     TokenType |-> "Bearer"]

\* the signing methods of type *jwt.SigningMethodRSA
RSAMethods == {"RS256", "RS384", "RS512"}

\* what verifyToken returns on an error: no claims
Rejected(err) == [claims |-> NoToken, err |-> err]

\* verifyToken without the check of the token type
verifyToken_AnyType(token, expectedType, t) ==
    IF token.alg \notin RSAMethods THEN Rejected("ErrInvalidToken")
    ELSE IF token.sig # "PrivateKey" THEN Rejected("ErrInvalidToken")
    ELSE IF ~(t < token.exp) THEN Rejected("ErrTokenExpired")
    ELSE IF token.iss # Issuer THEN Rejected("ErrInvalidToken")
    ELSE IF Audience \notin token.aud THEN Rejected("ErrInvalidToken")
    ELSE [claims |-> token, err |-> ""]

\* verifyToken with a key function that admits every method
verifyToken_AnyMethod(token, expectedType, t) ==
    IF token.sig # "PrivateKey" THEN Rejected("ErrInvalidToken")
    ELSE IF ~(t < token.exp) THEN Rejected("ErrTokenExpired")
    ELSE IF token.typ # expectedType THEN Rejected("ErrInvalidToken")
    ELSE IF token.iss # Issuer THEN Rejected("ErrInvalidToken")
    ELSE IF Audience \notin token.aud THEN Rejected("ErrInvalidToken")
    ELSE [claims |-> token, err |-> ""]

\* verifyToken at time t: [claims, err].  ParseWithClaims runs the key function
\* (the method check), the signature check and the expiry check, in this order;
\* sig = "PrivateKey" is a signature by the private key under the header's method
verifyToken(token, expectedType, t) ==
    IF token.alg \notin RSAMethods THEN Rejected("ErrInvalidToken")
    ELSE IF token.sig # "PrivateKey" THEN Rejected("ErrInvalidToken")
    ELSE IF ~(t < token.exp) THEN Rejected("ErrTokenExpired")
    ELSE IF token.typ # expectedType THEN Rejected("ErrInvalidToken")
    ELSE IF token.iss # Issuer THEN Rejected("ErrInvalidToken")
    ELSE IF Audience \notin token.aud THEN Rejected("ErrInvalidToken")
    ELSE [claims |-> token, err |-> ""]

VerifyAccessToken(token, t) == verifyToken(token, "access", t)

VerifyRefreshToken(token, t) == verifyToken(token, "refresh", t)

\* a HashToken that hands back the token string itself
HashToken_Raw(token) == token

\* HashToken: the SHA-256 digest of the token string in hexadecimal, as a term
\* over the string (distinct strings, distinct digests) of hex characters
HashToken(token) == [sha256 |-> token, hex |-> 64]

----------------------------------------------------------------------------
(* Rows *)

NoUser ==
    [id |-> 0, email |-> "", password_hash |-> <<>>, email_verified |-> FALSE,
     status |-> "", role |-> "", failed_login_attempts |-> 0, locked_until |-> NULL,
     password_changed_at |-> NULL, last_login_at |-> NULL, last_login_ip |-> "NULL"]

\* sql.NullString{String: s, Valid: s != ""} and the nil *string of an empty argument
NullString(s) == IF s = "" THEN "NULL" ELSE s

\* a lock that lasts until it is explicitly cleared
IsLocked_UntilCleared(u, t) == u.locked_until # NULL

\* User.IsLocked at time t
IsLocked(u, t) == IF u.locked_until = NULL THEN FALSE ELSE t < u.locked_until

----------------------------------------------------------------------------
(* SQL statements of the user repository, as the table they leave *)

\* a Create that stores the new user as already active
CreateUser_Active(email, passwordHash, role) ==
    Append(users,
        [id |-> Len(users) + 1, email |-> email, password_hash |-> passwordHash,
         email_verified |-> FALSE, status |-> "active", role |-> role,
         failed_login_attempts |-> 0, locked_until |-> NULL,
         password_changed_at |-> NULL, last_login_at |-> NULL, last_login_ip |-> "NULL"])

\* CreateUser through UserRepository.Create: a new row with the column defaults
CreateUser(email, passwordHash, role) ==
    Append(users,
        [id |-> Len(users) + 1, email |-> email, password_hash |-> passwordHash,
         email_verified |-> FALSE, status |-> "pending_verification", role |-> role,
         failed_login_attempts |-> 0, locked_until |-> NULL,
         password_changed_at |-> NULL, last_login_at |-> NULL, last_login_ip |-> "NULL"])

HasEmail(email) == \E i \in 1..Len(users) : users[i].email = email

GetUserByEmail(email) ==
    IF HasEmail(email)
    THEN users[CHOOSE i \in 1..Len(users) : users[i].email = email]
    ELSE NoUser

GetUserByID(id) == IF id \in 1..Len(users) THEN users[id] ELSE NoUser

\* UpdateUser with only the status argument set: the other columns keep their value
UpdateUser(id, status) ==
    [i \in 1..Len(users) |->
        IF i = id THEN [users[i] EXCEPT !.status = status] ELSE users[i]]

UpdateUserPassword(id, passwordHash) ==
    [i \in 1..Len(users) |->
        IF i = id
        THEN [users[i] EXCEPT !.password_hash = passwordHash, !.password_changed_at = now]
        ELSE users[i]]

UpdateUserLastLogin(id, ip) ==
    [i \in 1..Len(users) |->
        IF i = id
        THEN [users[i] EXCEPT !.last_login_at = now, !.last_login_ip = NullString(ip)]
        ELSE users[i]]

IncrementFailedLoginAttempts(id) ==
    [i \in 1..Len(users) |->
        IF i = id
        THEN [users[i] EXCEPT !.failed_login_attempts = @ + 1]
        ELSE users[i]]

ResetFailedLoginAttempts(id) ==
    [i \in 1..Len(users) |->
        IF i = id
        THEN [users[i] EXCEPT !.failed_login_attempts = 0, !.locked_until = NULL]
        ELSE users[i]]

\* a lock that starts the count of failed attempts afresh
LockUserAccount_Recount(id, until) ==
    [i \in 1..Len(users) |->
        IF i = id
        THEN [users[i] EXCEPT !.locked_until = until, !.failed_login_attempts = 0]
        ELSE users[i]]

LockUserAccount(id, until) ==
    [i \in 1..Len(users) |->
        IF i = id THEN [users[i] EXCEPT !.locked_until = until] ELSE users[i]]

\* UpdateUserEmailVerified: SET email_verified = TRUE, status = 'active' WHERE id = $1
UpdateUserEmailVerified(id) ==
    [i \in 1..Len(users) |->
        IF i = id
        THEN [users[i] EXCEPT !.email_verified = TRUE, !.status = "active"]
        ELSE users[i]]

----------------------------------------------------------------------------
(* SQL statements of the refresh-token repository *)

NoRow ==
    [user_id |-> 0, token_hash |-> HashToken(NoToken), expires_at |-> 0,
     revoked |-> FALSE, revoked_at |-> NULL, ip_address |-> "NULL", user_agent |-> "NULL"]

\* the insert violates token_hash UNIQUE or the user_id foreign key
CreateRefused(userID, tokenHash) ==
    \/ \E r \in refresh_tokens : r.token_hash = tokenHash
    \/ userID \notin 1..Len(users)

CreateRefreshToken(userID, tokenHash, expiresAt, ip, ua) ==
    refresh_tokens \cup
        {[user_id |-> userID, token_hash |-> tokenHash, expires_at |-> expiresAt,
          revoked |-> FALSE, revoked_at |-> NULL,
          ip_address |-> NullString(ip), user_agent |-> NullString(ua)]}

\* a lookup that reports every row it finds as unrevoked
GetRefreshTokenByHash_Unrevoked(tokenHash) ==
    IF \E r \in refresh_tokens : r.token_hash = tokenHash /\ r.expires_at > now
    THEN [(CHOOSE r \in refresh_tokens : r.token_hash = tokenHash /\ r.expires_at > now)
             EXCEPT !.revoked = FALSE]
    ELSE NoRow

\* GetRefreshTokenByHash: WHERE token_hash = $1 AND expires_at > NOW(); NoRow for no rows
GetRefreshTokenByHash(tokenHash) ==
    IF \E r \in refresh_tokens : r.token_hash = tokenHash /\ r.expires_at > now
    THEN CHOOSE r \in refresh_tokens : r.token_hash = tokenHash /\ r.expires_at > now
    ELSE NoRow

\* a revoke that flips the flag of the row
RevokeRefreshToken_Toggle(tokenHash) ==
    {IF r.token_hash = tokenHash
     THEN [r EXCEPT !.revoked = ~r.revoked, !.revoked_at = now]
     ELSE r : r \in refresh_tokens}

\* a revoke that matches on the owner of the presented token
RevokeRefreshToken_ByOwner(tokenHash) ==
    {IF \E q \in refresh_tokens : q.token_hash = tokenHash /\ q.user_id = r.user_id
     THEN [r EXCEPT !.revoked = TRUE, !.revoked_at = now]
     ELSE r : r \in refresh_tokens}

RevokeRefreshToken(tokenHash) ==
    {IF r.token_hash = tokenHash
     THEN [r EXCEPT !.revoked = TRUE, !.revoked_at = now]
     ELSE r : r \in refresh_tokens}

RevokeAllUserRefreshTokens(userID) ==
    {IF r.user_id = userID /\ r.revoked = FALSE
     THEN [r EXCEPT !.revoked = TRUE, !.revoked_at = now]
     ELSE r : r \in refresh_tokens}

\* INTERVAL '7 days' of DeleteExpiredRefreshTokens, on the scale of RefreshTokenDuration
RetentionWindow == 2

\* DeleteExpiredRefreshTokens: the rows left by DELETE ... WHERE expires_at < NOW()
\* OR (revoked = TRUE AND revoked_at < NOW() - INTERVAL '7 days')
DeleteExpiredRefreshTokens ==
    {r \in refresh_tokens :
        ~(r.expires_at < now \/ (r.revoked = TRUE /\ r.revoked_at < now - RetentionWindow))}

----------------------------------------------------------------------------
(* Request slots *)

\* a handler's arguments and locals; userID is also the id of the row Login read
IdleLoc ==
    [op |-> "", email |-> "", password |-> <<>>, ip |-> "", ua |-> "", userID |-> 0,
     token |-> NoToken, user |-> NoUser, newHash |-> <<>>, pair |-> NoPair]

\* a returned call: its arguments (from l), the branch it took (via), and what it
\* returned: the error, the token pair and the id of the user returned (0: nil)
Result(l, via, err, pair, user) ==
    [op |-> l.op, email |-> l.email, password |-> l.password, userID |-> l.userID,
     token |-> l.token, via |-> via, err |-> err, pair |-> pair, user |-> user]

NoResult == Result(IdleLoc, "", "", NoPair, 0)

\* no direct call of a hasher or token function
NoArg == [fn |-> ""]

NoRet == [fn |-> ""]

Quiet == \A q \in Procs : pc[q] = "idle"

\* a repository call or a signature: succeeds, or fails while the fault budget lasts
Outcome(ok) ==
    /\ ok \/ faults < MaxFaults
    /\ faults' = IF ok THEN faults ELSE faults + 1

\* requests that are past their checks and will draw uuids for a new pair
Pending == {q \in Procs : pc[q] \in {"L_reset", "L_create", "R_revoke", "R_create"}}

PairBudget == (uuids \div 2) + Cardinality(Pending) < MaxPairs

\* a client makes a call
Begin == calls' = calls + 1

Return(p, res) ==
    /\ pc' = [pc EXCEPT ![p] = "idle"]
    /\ loc' = [loc EXCEPT ![p] = IdleLoc]
    /\ last' = res

Goto(p, label, l) ==
    /\ pc' = [pc EXCEPT ![p] = label]
    /\ loc' = [loc EXCEPT ![p] = l]
    /\ last' = last

Handed(pair) == tokens \cup {pair.AccessToken, pair.RefreshToken}

\* a lookup failure that tells the caller the user is missing
ErrLookup_NotFound == "ErrUserNotFound"

\* the errors Login returns for a failed lookup and for a failed password check
ErrLookup == "ErrInvalidCredentials"

ErrPassword == "ErrInvalidCredentials"

\* a status check that turns away deleted accounts only
Inactive_DeletedOnly(user) == user.status = "deleted"

\* Login's status check: neither active nor pending verification
Inactive(user) == user.status # "active" /\ user.status # "pending_verification"

\* the streak of user id after a Login for that user that ended with result via
Streak(id, via) ==
    IF id \notin DOMAIN streak THEN streak
    ELSE [streak EXCEPT ![id] = IF via = "wrong_password" THEN @ + 1 ELSE 0]

----------------------------------------------------------------------------
(* Init: the adapter right after NewAdapter, over empty tables *)

Init ==
    /\ now = 0
    /\ users = <<>>
    /\ refresh_tokens = {}
    /\ pc = [p \in Procs |-> "idle"]
    /\ loc = [p \in Procs |-> IdleLoc]
    /\ tokens = {}
    /\ uuids = 0
    /\ faults = 0
    /\ last = NoResult
    /\ calls = 0
    /\ exchanged = [j \in 1..(2 * MaxPairs) |-> 0]
    /\ streak = [u \in 1..MaxUsers |-> 0]
    /\ arg = NoArg
    /\ ret = NoRet

Tick ==
    /\ now < MaxTime
    /\ now' = now + 1
    /\ UNCHANGED <<arg, ret, users, refresh_tokens, pc, loc, tokens, uuids, faults, last, calls,
                   exchanged, streak>>

----------------------------------------------------------------------------
(* Adapter.Register *)

Register(email, password, salt, ok) ==
    /\ Begin
    /\ LET policy == ValidatePassword(Config, password)
           passwordHash == Hash(password, salt)
           l == [IdleLoc EXCEPT !.op = "Register", !.email = email, !.password = password]
       IN  IF policy # ""
           THEN /\ ok
                /\ last' = Result(l, policy, "PolicyViolation", NoPair, 0)
                /\ UNCHANGED <<users, faults>>
           ELSE IF ~ok \/ HasEmail(email)
           THEN /\ Outcome(ok)
                /\ last' = Result(l, "create", "ErrStore", NoPair, 0)
                /\ UNCHANGED users
           ELSE /\ Len(users) < MaxUsers
                /\ users' = CreateUser(email, passwordHash, "user")
                /\ last' = Result(l, "created", "", NoPair, Len(users) + 1)
                /\ UNCHANGED faults
    /\ UNCHANGED <<arg, ret, now, refresh_tokens, pc, loc, tokens, uuids, exchanged, streak>>

----------------------------------------------------------------------------
(* Adapter.Login *)

\* GetByEmail, then the lock, status and password checks on the row read
Login(p, email, password, ip, ok) ==
    /\ pc[p] = "idle"
    /\ Begin
    /\ Outcome(ok)
    /\ LET user == GetUserByEmail(email)
           valid == Verified[password, user.password_hash]
           l == [IdleLoc EXCEPT !.op = "Login", !.email = email, !.password = password,
                                !.ip = ip, !.user = user, !.userID = user.id]
       IN  IF ~ok
           THEN /\ Return(p, Result(l, "lookup_failed", ErrLookup, NoPair, 0))
                /\ streak' = Streak(user.id, "lookup_failed")
           ELSE IF user = NoUser
           THEN /\ Return(p, Result(l, "no_user", ErrLookup, NoPair, 0))
                /\ UNCHANGED streak
           ELSE IF IsLocked(user, now)
           THEN /\ Return(p, Result(l, "locked", "ErrAccountLocked", NoPair, 0))
                /\ streak' = Streak(user.id, "locked")
           ELSE IF Inactive(user)
           THEN /\ Return(p, Result(l, "inactive", "ErrAccountInactive", NoPair, 0))
                /\ streak' = Streak(user.id, "inactive")
           ELSE IF valid # Match
           THEN /\ Goto(p, "L_incr", l)
                /\ UNCHANGED streak
           ELSE /\ PairBudget
                /\ UNCHANGED streak
                /\ IF user.failed_login_attempts > 0
                   THEN Goto(p, "L_reset", l)
                   ELSE Goto(p, "L_create", l)
    /\ UNCHANGED <<arg, ret, now, users, refresh_tokens, tokens, uuids, exchanged>>

\* IncrementFailedLoginAttempts, then the lock decision on the copy read earlier
LoginIncrement(p, ok) ==
    /\ pc[p] = "L_incr"
    /\ Outcome(ok)
    /\ users' = IF ok THEN IncrementFailedLoginAttempts(loc[p].user.id) ELSE users
    /\ LET l == [loc[p] EXCEPT !.user.failed_login_attempts = @ + 1]
       IN  IF l.user.failed_login_attempts >= MaxFailedAttempts
           THEN /\ Goto(p, "L_lock", l)
                /\ UNCHANGED streak
           ELSE /\ Return(p, Result(l, "wrong_password", ErrPassword, NoPair, 0))
                /\ streak' = Streak(l.userID, "wrong_password")
    /\ UNCHANGED <<arg, ret, now, refresh_tokens, tokens, uuids, calls, exchanged>>

LoginLock(p, ok) ==
    /\ pc[p] = "L_lock"
    /\ Outcome(ok)
    /\ users' = IF ok THEN LockUserAccount(loc[p].user.id, now + LockoutDuration) ELSE users
    /\ Return(p, Result(loc[p], "wrong_password", ErrPassword, NoPair, 0))
    /\ streak' = Streak(loc[p].userID, "wrong_password")
    /\ UNCHANGED <<arg, ret, now, refresh_tokens, tokens, uuids, calls, exchanged>>

LoginReset(p, ok) ==
    /\ pc[p] = "L_reset"
    /\ Outcome(ok)
    /\ users' = IF ok THEN ResetFailedLoginAttempts(loc[p].user.id) ELSE users
    /\ Goto(p, "L_create", loc[p])
    /\ UNCHANGED <<arg, ret, now, refresh_tokens, tokens, uuids, calls, exchanged, streak>>

\* GenerateTokenPair (signed: the signatures succeed), then refreshRepo.Create
LoginCreate(p, signed, ok) ==
    /\ pc[p] = "L_create"
    /\ LET user == loc[p].user
           tokenPair == GenerateTokenPair(user.id, user.email, user.email_verified,
                                          user.role, now, uuids + 1)
           refreshTokenHash == HashToken(tokenPair.RefreshToken)
           stored == ok /\ ~CreateRefused(user.id, refreshTokenHash)
       IN  IF ~signed
           THEN /\ ok
                /\ Outcome(FALSE)
                /\ Return(p, Result(loc[p], "sign", "ErrSign", NoPair, 0))
                /\ streak' = Streak(user.id, "sign")
                /\ UNCHANGED <<refresh_tokens, uuids>>
           ELSE /\ Outcome(ok)
                /\ uuids' = uuids + 2
                /\ refresh_tokens' =
                       IF stored
                       THEN CreateRefreshToken(user.id, refreshTokenHash,
                                               now + RefreshTokenDuration, loc[p].ip, loc[p].ua)
                       ELSE refresh_tokens
                /\ Goto(p, "L_last", [loc[p] EXCEPT !.pair = tokenPair])
                /\ UNCHANGED streak
    /\ UNCHANGED <<arg, ret, now, users, tokens, calls, exchanged>>

\* a Login that returns the error of UpdateLastLogin
LoginLast_Surfacing(p, ok) ==
    /\ pc[p] = "L_last"
    /\ Outcome(ok)
    /\ users' = IF ok THEN UpdateUserLastLogin(loc[p].user.id, loc[p].ip) ELSE users
    /\ tokens' = IF ok THEN Handed(loc[p].pair) ELSE tokens
    /\ IF ok THEN Return(p, Result(loc[p], "ok", "", loc[p].pair, loc[p].user.id))
             ELSE Return(p, Result(loc[p], "last_login", "ErrStore", NoPair, 0))
    /\ streak' = Streak(loc[p].userID, "ok")
    /\ UNCHANGED <<arg, ret, now, refresh_tokens, uuids, calls, exchanged>>

\* UpdateLastLogin, then the return of the pair and the user
LoginLast(p, ok) ==
    /\ pc[p] = "L_last"
    /\ Outcome(ok)
    /\ users' = IF ok THEN UpdateUserLastLogin(loc[p].user.id, loc[p].ip) ELSE users
    /\ tokens' = Handed(loc[p].pair)
    /\ Return(p, Result(loc[p], "ok", "", loc[p].pair, loc[p].user.id))
    /\ streak' = Streak(loc[p].userID, "ok")
    /\ UNCHANGED <<arg, ret, now, refresh_tokens, uuids, calls, exchanged>>

----------------------------------------------------------------------------
(* Adapter.RefreshTokens *)

\* a RefreshTokens that reads the user row and turns inactive accounts away
RefreshTokens_ActiveOnly(p, refreshToken, ok) ==
    /\ pc[p] = "idle"
    /\ Begin
    /\ LET verified == VerifyRefreshToken(refreshToken, now)
           err == verified.err
           claims == verified.claims
           tokenHash == HashToken(refreshToken)
           storedToken == GetRefreshTokenByHash(tokenHash)
           l == [IdleLoc EXCEPT !.op = "RefreshTokens", !.token = refreshToken,
                                !.userID = claims.uid]
       IN  IF err # ""
           THEN /\ ok
                /\ UNCHANGED faults
                /\ Return(p, Result(l, "verify", err, NoPair, 0))
           ELSE /\ Outcome(ok)
                /\ IF ~ok
                   THEN Return(p, Result(l, "lookup_failed", "ErrInvalidToken", NoPair, 0))
                   ELSE IF storedToken = NoRow
                   THEN Return(p, Result(l, "not_found", "ErrInvalidToken", NoPair, 0))
                   ELSE IF storedToken.revoked
                   THEN Goto(p, "R_revall", l)
                   ELSE IF Inactive(GetUserByID(claims.uid))
                   THEN Return(p, Result(l, "inactive", "ErrAccountInactive", NoPair, 0))
                   ELSE PairBudget /\ Goto(p, "R_revoke", l)
    /\ UNCHANGED <<arg, ret, now, users, refresh_tokens, tokens, uuids, exchanged, streak>>

\* VerifyRefreshToken, then GetByHash and the revoked check on the row read
RefreshTokens(p, refreshToken, ok) ==
    /\ pc[p] = "idle"
    /\ Begin
    /\ LET verified == VerifyRefreshToken(refreshToken, now)
           err == verified.err
           claims == verified.claims
           tokenHash == HashToken(refreshToken)
           storedToken == GetRefreshTokenByHash(tokenHash)
           l == [IdleLoc EXCEPT !.op = "RefreshTokens", !.token = refreshToken,
                                !.userID = claims.uid]
       IN  IF err # ""
           THEN /\ ok
                /\ UNCHANGED faults
                /\ Return(p, Result(l, "verify", err, NoPair, 0))
           ELSE /\ Outcome(ok)
                /\ IF ~ok
                   THEN Return(p, Result(l, "lookup_failed", "ErrInvalidToken", NoPair, 0))
                   ELSE IF storedToken = NoRow
                   THEN Return(p, Result(l, "not_found", "ErrInvalidToken", NoPair, 0))
                   ELSE IF storedToken.revoked
                   THEN Goto(p, "R_revall", l)
                   ELSE PairBudget /\ Goto(p, "R_revoke", l)
    /\ UNCHANGED <<arg, ret, now, users, refresh_tokens, tokens, uuids, exchanged, streak>>

\* a reuse branch that revokes nothing
RefreshRevokeAll_Refusing(p, ok) ==
    /\ pc[p] = "R_revall"
    /\ Outcome(ok)
    /\ refresh_tokens' = refresh_tokens
    /\ Return(p, Result(loc[p], "reuse", "ErrInvalidToken", NoPair, 0))
    /\ UNCHANGED <<arg, ret, now, users, tokens, uuids, calls, exchanged, streak>>

\* reuse detected: RevokeAllForUser, then ErrInvalidToken
RefreshRevokeAll(p, ok) ==
    /\ pc[p] = "R_revall"
    /\ Outcome(ok)
    /\ refresh_tokens' = IF ok THEN RevokeAllUserRefreshTokens(loc[p].userID)
                         ELSE refresh_tokens
    /\ Return(p, Result(loc[p], "reuse", "ErrInvalidToken", NoPair, 0))
    /\ UNCHANGED <<arg, ret, now, users, tokens, uuids, calls, exchanged, streak>>

\* rotation: Revoke of the presented token
RefreshRevoke(p, ok) ==
    /\ pc[p] = "R_revoke"
    /\ Outcome(ok)
    /\ refresh_tokens' = IF ok THEN RevokeRefreshToken(HashToken(loc[p].token))
                         ELSE refresh_tokens
    /\ Goto(p, "R_create", loc[p])
    /\ UNCHANGED <<arg, ret, now, users, tokens, uuids, calls, exchanged, streak>>

\* GenerateTokenPair from the claims, refreshRepo.Create, and the return of the pair
RefreshCreate(p, signed, ok) ==
    /\ pc[p] = "R_create"
    /\ LET claims == loc[p].token
           tokenPair == GenerateTokenPair(claims.uid, claims.email, claims.ev,
                                          claims.role, now, uuids + 1)
           newTokenHash == HashToken(tokenPair.RefreshToken)
           stored == ok /\ ~CreateRefused(claims.uid, newTokenHash)
       IN  IF ~signed
           THEN /\ ok
                /\ Outcome(FALSE)
                /\ Return(p, Result(loc[p], "sign", "ErrSign", NoPair, 0))
                /\ UNCHANGED <<refresh_tokens, uuids, tokens, exchanged>>
           ELSE /\ Outcome(ok)
                /\ uuids' = uuids + 2
                /\ refresh_tokens' =
                       IF stored
                       THEN CreateRefreshToken(claims.uid, newTokenHash,
                                               now + RefreshTokenDuration, "", "")
                       ELSE refresh_tokens
                /\ tokens' = Handed(tokenPair)
                /\ exchanged' = [exchanged EXCEPT ![claims.jti] = @ + 1]
                /\ Return(p, Result(loc[p], "ok", "", tokenPair, 0))
    /\ UNCHANGED <<arg, ret, now, users, calls, streak>>

----------------------------------------------------------------------------
(* Adapter.Logout, Adapter.LogoutAll *)

Logout(refreshToken, ok) ==
    /\ Begin
    /\ Outcome(ok)
    /\ refresh_tokens' = IF ok THEN RevokeRefreshToken(HashToken(refreshToken))
                         ELSE refresh_tokens
    /\ last' = Result([IdleLoc EXCEPT !.op = "Logout", !.token = refreshToken],
                      "revoke", IF ok THEN "" ELSE "ErrStore", NoPair, 0)
    /\ UNCHANGED <<arg, ret, now, users, pc, loc, tokens, uuids, exchanged, streak>>

LogoutAll(userID, ok) ==
    /\ Begin
    /\ Outcome(ok)
    /\ refresh_tokens' = IF ok THEN RevokeAllUserRefreshTokens(userID)
                         ELSE refresh_tokens
    /\ last' = Result([IdleLoc EXCEPT !.op = "LogoutAll", !.userID = userID],
                      "revoke_all", IF ok THEN "" ELSE "ErrStore", NoPair, 0)
    /\ UNCHANGED <<arg, ret, now, users, pc, loc, tokens, uuids, exchanged, streak>>

----------------------------------------------------------------------------
(* UserRepository.Update, called by the user administration with a new status *)

Update(id, status, ok) ==
    /\ Begin
    /\ Outcome(ok)
    /\ users' = IF ok THEN UpdateUser(id, status) ELSE users
    /\ last' = Result([IdleLoc EXCEPT !.op = "Update", !.userID = id], status,
                      IF ~ok THEN "ErrStore"
                      ELSE IF id \notin 1..Len(users) THEN "ErrUserNotFound" ELSE "",
                      NoPair, IF ok /\ id \in 1..Len(users) THEN id ELSE 0)
    /\ UNCHANGED <<arg, ret, now, refresh_tokens, pc, loc, tokens, uuids, exchanged, streak>>

----------------------------------------------------------------------------
(* Adapter.ChangePassword *)

\* GetByID, Verify of the current password, ValidatePassword and Hash of the new one
ChangePassword(p, userID, currentPassword, newPassword, salt, ok) ==
    /\ pc[p] = "idle"
    /\ Begin
    /\ Outcome(ok)
    /\ LET user == GetUserByID(userID)
           valid == Verified[currentPassword, user.password_hash]
           policy == ValidatePassword(Config, newPassword)
           l == [IdleLoc EXCEPT !.op = "ChangePassword", !.userID = userID,
                                !.password = currentPassword,
                                !.newHash = Hash(newPassword, salt)]
       IN  IF ~ok
           THEN Return(p, Result(l, "lookup_failed", "ErrStore", NoPair, 0))
           ELSE IF user = NoUser
           THEN Return(p, Result(l, "no_user", "ErrUserNotFound", NoPair, 0))
           ELSE IF valid # Match
           THEN Return(p, Result(l, "wrong_password", "ErrInvalidCredentials", NoPair, 0))
           ELSE IF policy # ""
           THEN Return(p, Result(l, policy, "PolicyViolation", NoPair, 0))
           ELSE Goto(p, "C_upd", l)
    /\ UNCHANGED <<arg, ret, now, users, refresh_tokens, tokens, uuids, exchanged, streak>>

ChangePasswordUpdate(p, ok) ==
    /\ pc[p] = "C_upd"
    /\ Outcome(ok)
    /\ IF ok
       THEN /\ users' = UpdateUserPassword(loc[p].userID, loc[p].newHash)
            /\ Goto(p, "C_rev", loc[p])
       ELSE /\ UNCHANGED users
            /\ Return(p, Result(loc[p], "update", "ErrStore", NoPair, 0))
    /\ UNCHANGED <<arg, ret, now, refresh_tokens, tokens, uuids, calls, exchanged, streak>>

\* RevokeAllForUser, then the return of nil
ChangePasswordRevoke(p, ok) ==
    /\ pc[p] = "C_rev"
    /\ Outcome(ok)
    /\ refresh_tokens' = IF ok THEN RevokeAllUserRefreshTokens(loc[p].userID)
                         ELSE refresh_tokens
    /\ Return(p, Result(loc[p], "ok", "", NoPair, 0))
    /\ UNCHANGED <<arg, ret, now, users, tokens, uuids, calls, exchanged, streak>>

----------------------------------------------------------------------------
(* Adapter.VerifyToken *)

getRolePermissions(role) ==
    IF role = "admin"
    THEN {<<"users", "read">>, <<"users", "write">>, <<"users", "delete">>,
          <<"files", "read">>, <<"files", "write">>, <<"files", "delete">>,
          <<"documents", "read">>, <<"documents", "write">>, <<"documents", "delete">>,
          <<"admin", "read">>, <<"admin", "write">>}
    ELSE IF role = "user"
    THEN {<<"files", "read">>, <<"files", "write">>,
          <<"documents", "read">>, <<"documents", "write">>}
    ELSE {}

\* the Identity VerifyToken returns at time t, or its error
Identity(token, t) ==
    LET err == VerifyAccessToken(token, t).err IN
    IF err # ""
    THEN [err |-> err, UserID |-> 0, Email |-> "", EmailVerified |-> FALSE,
          Roles |-> {}, Permissions |-> {}, ExpiresAt |-> 0]
    ELSE [err |-> "", UserID |-> token.uid, Email |-> token.email,
          EmailVerified |-> token.ev, Roles |-> {token.role},
          Permissions |-> getRolePermissions(token.role), ExpiresAt |-> token.exp]

\* a VerifyToken that also wants an unrevoked refresh-token row of the user
VerifyToken_Stateful(token) ==
    /\ Begin
    /\ LET live == \E r \in refresh_tokens : r.user_id = token.uid /\ ~r.revoked
           id == Identity(token, now)
       IN  last' = Result([IdleLoc EXCEPT !.op = "VerifyToken", !.token = token], "verify",
                          IF id.err = "" /\ ~live THEN "ErrInvalidToken" ELSE id.err,
                          NoPair, IF live THEN id.UserID ELSE 0)
    /\ UNCHANGED <<arg, ret, now, users, refresh_tokens, pc, loc, tokens, uuids, faults,
                   exchanged, streak>>

VerifyToken(token) ==
    /\ Begin
    /\ last' = Result([IdleLoc EXCEPT !.op = "VerifyToken", !.token = token],
                      "verify", Identity(token, now).err, NoPair, Identity(token, now).UserID)
    /\ UNCHANGED <<arg, ret, now, users, refresh_tokens, pc, loc, tokens, uuids, faults,
                   exchanged, streak>>

----------------------------------------------------------------------------
(* The worker pool: requests interleave at their repository calls *)

Step(p) ==
    \/ \E ok \in BOOLEAN : LoginIncrement(p, ok)
    \/ \E ok \in BOOLEAN : LoginLock(p, ok)
    \/ \E ok \in BOOLEAN : LoginReset(p, ok)
    \/ \E signed, ok \in BOOLEAN : LoginCreate(p, signed, ok)
    \/ \E ok \in BOOLEAN : LoginLast(p, ok)
    \/ \E ok \in BOOLEAN : RefreshRevokeAll(p, ok)
    \/ \E ok \in BOOLEAN : RefreshRevoke(p, ok)
    \/ \E signed, ok \in BOOLEAN : RefreshCreate(p, signed, ok)
    \/ \E ok \in BOOLEAN : ChangePasswordUpdate(p, ok)
    \/ \E ok \in BOOLEAN : ChangePasswordRevoke(p, ok)

Call(p) ==
    \/ \E e \in Emails, pw \in LoginPasswords, ip \in IPs, ok \in BOOLEAN :
           Login(p, e, pw, ip, ok)
    \/ \E t \in tokens, ok \in BOOLEAN : RefreshTokens(p, t, ok)
    \/ \E u \in 1..MaxUsers, cur \in LoginPasswords, new \in NewPasswords, s \in Salts,
          ok \in BOOLEAN : ChangePassword(p, u, cur, new, s, ok)

Atomic ==
    \/ \E e \in Emails, pw \in RegisterPasswords, s \in Salts, ok \in BOOLEAN :
           Register(e, pw, s, ok)
    \/ \E t \in tokens, ok \in BOOLEAN : Logout(t, ok)
    \/ \E u \in 1..MaxUsers, ok \in BOOLEAN : LogoutAll(u, ok)
    \/ \E u \in 1..MaxUsers, st \in AdminStatuses, ok \in BOOLEAN : Update(u, st, ok)
    \/ \E t \in tokens : VerifyToken(t)

Next ==
    \/ Tick
    \/ calls < MaxCalls /\ Atomic
    \/ calls < MaxCalls /\ \E p \in Procs : Call(p)
    \/ \E p \in Procs : Step(p)

Spec == Init /\ [][Next]_vars

\* one request at a time: a call starts only when no other is in flight
SeqNext ==
    \/ Tick
    \/ Quiet /\ calls < MaxSeqCalls /\ Atomic
    \/ Quiet /\ calls < MaxSeqCalls /\ Call(1)
    \/ Step(1)

SeqSpec == Init /\ [][SeqNext]_vars

----------------------------------------------------------------------------
(* The store's maintenance statements, called from outside the adapter: the
   email verification of a user and the garbage collection of refresh tokens *)

\* UserRepository.UpdateEmailVerified
UpdateEmailVerified(id, ok) ==
    /\ Begin
    /\ Outcome(ok)
    /\ users' = IF ok THEN UpdateUserEmailVerified(id) ELSE users
    /\ last' = Result([IdleLoc EXCEPT !.op = "UpdateEmailVerified", !.userID = id],
                      "verify_email", IF ok THEN "" ELSE "ErrStore", NoPair, 0)
    /\ UNCHANGED <<arg, ret, now, refresh_tokens, pc, loc, tokens, uuids, exchanged, streak>>

\* RefreshTokenRepository.DeleteExpired
DeleteExpired(ok) ==
    /\ Begin
    /\ Outcome(ok)
    /\ refresh_tokens' = IF ok THEN DeleteExpiredRefreshTokens ELSE refresh_tokens
    /\ last' = Result([IdleLoc EXCEPT !.op = "DeleteExpired"],
                      "delete_expired", IF ok THEN "" ELSE "ErrStore", NoPair, 0)
    /\ UNCHANGED <<arg, ret, now, users, pc, loc, tokens, uuids, exchanged, streak>>

\* the clock of the runs with maintenance: far enough for a refresh token to expire
MaintTick ==
    /\ now < MaintMaxTime
    /\ now' = now + 1
    /\ UNCHANGED <<arg, ret, users, refresh_tokens, pc, loc, tokens, uuids, faults, last, calls,
                   exchanged, streak>>

Maintenance ==
    \/ \E u \in 1..MaxUsers, ok \in BOOLEAN : UpdateEmailVerified(u, ok)
    \/ \E ok \in BOOLEAN : DeleteExpired(ok)

\* one request at a time, the maintenance statements among the calls
MaintNext ==
    \/ MaintTick
    \/ Quiet /\ calls < MaxMaintCalls /\ Atomic
    \/ Quiet /\ calls < MaxMaintCalls /\ Maintenance
    \/ Quiet /\ calls < MaxMaintCalls /\ Call(1)
    \/ Step(1)

MaintSpec == Init /\ [][MaintNext]_vars

----------------------------------------------------------------------------
(* Direct calls of the JWTManager and PasswordHasher functions: the arguments
   are drawn at the start, one step applies the function *)

\* token strings a caller can present: any header method, signature, type tag,
\* issuer, audience list and expiry
PresentedTokens ==
    {[Signed(ty, 1, 1, "a@x.com", FALSE, "user", 0, exp)
         EXCEPT !.alg = a, !.sig = sg, !.iss = is, !.aud = au] :
        ty \in {"access", "refresh"}, exp \in 1..MaxTime,
        a \in {"RS256", "RS512", "PS256", "HS256", "none"},
        sg \in {"PrivateKey", "OtherKey"},
        is \in {Issuer, "other-issuer"},
        au \in {{Audience}, {"other-api", Audience}, {"other-api"}, {}}}

verifyTokenArgs ==
    [fn : {"verifyToken"}, token : PresentedTokens, expectedType : {"access", "refresh"}]

\* passwords to hash and to verify, and the salts rand.Read may give
HashPasswords == {GoodPw, OtherPw, <<>>}
Rands == {1, 2}

HashArgs == [fn : {"Hash"}, password : HashPasswords, rand : Rands]

\* the strings Hash returns for these passwords and salts
Hashed == {Hash(pw, r) : pw \in HashPasswords, r \in Rands}

\* the positions of the parameter segment m=65536,t=3,p=2 in a string of Hashed
ParamsFrom == Len(Str(<<"$", "a", "r", "g", "o", "n", "2", "i", "d", "$", "v", "=">>)
                  \o Itoa(argon2Version) \o Str(<<"$">>)) + 1
ParamsTo == Len(Settings) - 1

\* characters that take the place of one of the segment or are added to it
CorruptChars == {Ch("0"), Ch("4"), Ch("x"), Ch(" "), Ch("_"), Ch("-"), Ch("$")}

Substitute(str, i, c) == [str EXCEPT ![i] = c]

Delete(str, i) == SubSeq(str, 1, i - 1) \o SubSeq(str, i + 1, Len(str))

Insert(str, i, c) == SubSeq(str, 1, i - 1) \o <<c>> \o SubSeq(str, i, Len(str))

\* a stored hash whose parameter segment was corrupted in one place
Corrupted ==
    LET str == Hash(GoodPw, 1)
    IN  ({Substitute(str, i, c) : i \in ParamsFrom..ParamsTo, c \in CorruptChars}
            \cup {Delete(str, i) : i \in ParamsFrom..ParamsTo}
            \cup {Insert(str, i, c) : i \in ParamsFrom..(ParamsTo + 1), c \in CorruptChars})
        \ {str}

VerifyArgs == [fn : {"Verify"}, password : HashPasswords, encodedHash : Hashed \cup Corrupted]

\* the policies a deployment can configure: two minimum lengths, every toggle
Policies ==
    [PasswordMinLength : {4, PasswordMinLength},
     PasswordRequireUpper : BOOLEAN, PasswordRequireLower : BOOLEAN,
     PasswordRequireDigit : BOOLEAN, PasswordRequireSpecial : BOOLEAN]

\* passwords of each mix of character classes, short and long, one of characters
\* of no class and one of two-byte characters
PolicyPasswords ==
    {<<>>, WeakPw, GoodPw, OtherPw,
     <<"P", "a", "0", "!">>,
     <<"P", "S", "P", "S", "P", "S", "P", "S">>,
     <<"p", "a", "s", "s", "w", "a", "r", "d">>,
     <<"0", "3", "0", "3", "0", "3", "0", "3">>,
     <<"!", "!", "!", "!", "!", "!", "!", "!">>,
     <<" ", " ", " ", " ", " ", " ", " ", " ">>,
     <<"e-acute", "e-acute", "e-acute", "e-acute">>,
     <<"P", "S", "P", "S", "0", "3", "0", "3">>,
     <<"p", "a", "s", "s", "0", "3", "!", "!">>,
     <<"P", "a", "s", "s", "w", "a", "r", "d">>,
     <<"P", "a", "s", "s", "w", "a", "r", "!">>,
     <<"P", "a", "s", "s", "w", "0", "r", "!">>}

ValidatePasswordArgs ==
    [fn : {"ValidatePassword"}, config : Policies, password : PolicyPasswords]

DirectArgs == verifyTokenArgs \cup HashArgs \cup VerifyArgs \cup ValidatePasswordArgs

DirectInit ==
    /\ now \in 0..MaxTime
    /\ arg \in DirectArgs
    /\ ret = NoRet
    /\ users = <<>>
    /\ refresh_tokens = {}
    /\ pc = [p \in Procs |-> "idle"]
    /\ loc = [p \in Procs |-> IdleLoc]
    /\ tokens = {}
    /\ uuids = 0
    /\ faults = 0
    /\ last = NoResult
    /\ calls = 0
    /\ exchanged = [j \in 1..(2 * MaxPairs) |-> 0]
    /\ streak = [u \in 1..MaxUsers |-> 0]

\* the direct call returns out
Returns(out) ==
    /\ ret = NoRet
    /\ ret' = [fn |-> arg.fn, out |-> out]
    /\ UNCHANGED <<now, users, refresh_tokens, pc, loc, tokens, uuids, faults, last,
                   calls, exchanged, streak, arg>>

CallVerifyToken ==
    /\ arg.fn = "verifyToken"
    /\ Returns(verifyToken(arg.token, arg.expectedType, now))

CallHash ==
    /\ arg.fn = "Hash"
    /\ Returns(Hash(arg.password, arg.rand))

CallVerify ==
    /\ arg.fn = "Verify"
    /\ Returns(Verify(arg.password, arg.encodedHash))

CallValidatePassword ==
    /\ arg.fn = "ValidatePassword"
    /\ Returns(ValidatePassword(arg.config, arg.password))

DirectNext ==
    \/ CallVerifyToken
    \/ CallHash
    \/ CallVerify
    \/ CallValidatePassword

DirectSpec == DirectInit /\ [][DirectNext]_vars

----------------------------------------------------------------------------
(* Properties.  A call that returns the store's own error (ErrStore) has told its
   caller that it failed; the properties below are about what the other results
   promise.  A step "returns" a call when it sets last. *)

\* this step returns a call: at once, or from a later step of a request in flight
Returned ==
    \/ calls' = calls + 1 /\ pc' = pc
    \/ \E p \in Procs : pc[p] # "idle" /\ pc'[p] = "idle"

\* this step returns a call of op
ReturnedOp(op) == Returned /\ last'.op = op

\* the stored row of a token in table rows, or NoRow (expired rows included)
RowOf(rows, token) ==
    IF \E r \in rows : r.token_hash = HashToken(token)
    THEN CHOOSE r \in rows : r.token_hash = HashToken(token)
    ELSE NoRow

\* a row that GetRefreshTokenByHash would return unrevoked at time t
Usable(r, t) == r # NoRow /\ ~r.revoked /\ r.expires_at > t

(* C1: one request at a time, at most one RefreshTokens call presenting a given
   refresh token returns a TokenPair. *)
C1_SingleUse == \A j \in DOMAIN exchanged : exchanged[j] <= 1

(* C2: RefreshTokens calls that overlap on the same refresh token do not both
   return a TokenPair; stated for the runs in which no repository call fails, so
   that only the interleaving is at work. *)
C2_OneWinner == faults = 0 => \A j \in DOMAIN exchanged : exchanged[j] <= 1

(* C3: when RefreshTokens finds the presented token's row revoked and returns
   ErrInvalidToken for it, every refresh token of that user is revoked. *)
C3_ReuseRevokesAll ==
    [][ReturnedOp("RefreshTokens") /\ last'.via = "reuse"
           => /\ last'.err = "ErrInvalidToken"
              /\ \A r \in refresh_tokens' : r.user_id = last'.userID => r.revoked]_vars

\* this step is slot p taking a call of op: it returns at once or goes in flight
Calls(p, op) ==
    /\ pc[p] = "idle"
    /\ calls' = calls + 1
    /\ IF pc'[p] = "idle" THEN pc' = pc /\ last'.op = op ELSE loc'[p].op = op

\* the arguments of the call slot p takes in this step
Args(p) == IF pc'[p] = "idle" THEN last' ELSE loc'[p]

\* password is not the one whose hash the user row holds
WrongPassword(u, password) ==
    u.password_hash # Hash(password, decodeHash(u.password_hash).salt.rand)

\* what a call returned to its caller
Out(res) == [err |-> res.err, pair |-> res.pair, user |-> res.user]

(* C4: a Login that ends the N-th wrong-password call in a row on an account leaves
   locked_until in the future, and a Login on an account whose lock has not run out
   returns ErrAccountLocked whatever the password. *)
C4_Lockout ==
    [][/\ ReturnedOp("Login") /\ last'.via = "wrong_password"
             /\ streak'[last'.userID] >= MaxFailedAttempts
          => IsLocked(users'[last'.userID], now')
       /\ \A p \in Procs :
             /\ Calls(p, "Login")
             /\ HasEmail(Args(p).email)
             /\ IsLocked(GetUserByEmail(Args(p).email), now)
          => pc'[p] = "idle" /\ last'.err = "ErrAccountLocked"]_vars

(* C5: a Logout that returns nil revokes the row of the presented token, and no
   Logout changes any other row or any user; a LogoutAll that returns nil revokes
   every row of that user, and no LogoutAll changes a row of another user. *)
C5_LogoutExact ==
    [][/\ ReturnedOp("Logout")
          => /\ users' = users
             /\ Cardinality(refresh_tokens') = Cardinality(refresh_tokens)
             /\ \A r \in refresh_tokens :
                    r.token_hash # HashToken(last'.token) => r \in refresh_tokens'
             /\ last'.err = "" /\ RowOf(refresh_tokens, last'.token) # NoRow
                    => RowOf(refresh_tokens', last'.token).revoked
       /\ ReturnedOp("LogoutAll")
          => /\ users' = users
             /\ Cardinality(refresh_tokens') = Cardinality(refresh_tokens)
             /\ \A r \in refresh_tokens :
                    r.user_id # last'.userID => r \in refresh_tokens'
             /\ last'.err = ""
                    => \A r \in refresh_tokens' : r.user_id = last'.userID => r.revoked]_vars

\* a Logout revoked the presented row and left a usable row of another session
C5_Witness ==
    /\ last.op = "Logout" /\ last.err = ""
    /\ RowOf(refresh_tokens, last.token).revoked
    /\ \E r \in refresh_tokens : r.user_id # last.token.uid /\ Usable(r, now)

(* C6: when ChangePassword returns nil, every refresh token of that user is
   revoked (one request at a time, so every row of the user was stored before). *)
C6_ChangeRevokes ==
    [][ReturnedOp("ChangePassword") /\ last'.err = ""
           => \A r \in refresh_tokens' : r.user_id = last'.userID => r.revoked]_vars

(* C7: a ChangePassword for an existing user with a wrong current password returns
   at once with ErrInvalidCredentials (the store's error if reading the user fails)
   and changes neither the users nor the refresh tokens. *)
C7_WrongCurrent ==
    [][\A p \in Procs :
          /\ Calls(p, "ChangePassword")
          /\ Args(p).userID \in 1..Len(users)
          /\ WrongPassword(users[Args(p).userID], Args(p).password)
          => /\ pc'[p] = "idle"
             /\ last'.err \in {"ErrInvalidCredentials", "ErrStore"}
             /\ last'.via # "lookup_failed" => last'.err = "ErrInvalidCredentials"
             /\ users' = users
             /\ refresh_tokens' = refresh_tokens]_vars

\* a wrong current password was refused while the user held a usable refresh token
C7_Witness ==
    /\ last.op = "ChangePassword" /\ last.err = "ErrInvalidCredentials"
    /\ last.userID \in 1..Len(users)
    /\ WrongPassword(users[last.userID], last.password)
    /\ \E r \in refresh_tokens : r.user_id = last.userID /\ Usable(r, now)

(* C8: when Login or RefreshTokens returns a TokenPair, the hash of the returned
   refresh token is stored as a non-revoked, unexpired row of that user. *)
C8_ReturnedIsStored ==
    [][(ReturnedOp("Login") \/ ReturnedOp("RefreshTokens")) /\ last'.err = ""
           => LET r == RowOf(refresh_tokens', last'.pair.RefreshToken)
              IN  Usable(r, now') /\ r.user_id = last'.userID]_vars

\* what Login returns when it denies the credentials
Denied == [err |-> "ErrInvalidCredentials", pair |-> NoPair, user |-> 0]

(* C9: a Login for an email with no user, and a Login with a wrong password for a
   user that is not locked and is active or pending verification, return the same
   value: ErrInvalidCredentials with no pair and no user. *)
C9_SameError ==
    [][\A p \in Procs :
          /\ Calls(p, "Login") /\ ~HasEmail(Args(p).email)
                => pc'[p] = "idle" /\ Out(last') = Denied
          /\ Calls(p, "Login") /\ HasEmail(Args(p).email)
                /\ (LET u == GetUserByEmail(Args(p).email)
                    IN  /\ ~IsLocked(u, now)
                        /\ u.status \in {"active", "pending_verification"}
                        /\ WrongPassword(u, Args(p).password))
                => \/ pc'[p] = "idle" /\ Out(last') = Denied
                   \/ pc'[p] = "L_incr"
          /\ pc[p] \in {"L_incr", "L_lock"} /\ pc'[p] = "idle"
                => Out(last') = Denied]_vars

\* an unknown email was refused while a user was registered under another email
C9_Witness ==
    /\ last.op = "Login" /\ last.via = "no_user" /\ Out(last) = Denied
    /\ Len(users) > 0

(* C10: an access token of a generated pair is never accepted by
   VerifyRefreshToken and a refresh token never by VerifyAccessToken or
   VerifyToken; a RefreshTokens call with an access token returns its error at once
   with both tables untouched and no repository call made. *)
C10_TypeSeparation ==
    /\ [](\A t \in tokens :
             /\ t.typ = "access" => VerifyRefreshToken(t, now).err # ""
             /\ t.typ = "refresh" => /\ VerifyAccessToken(t, now).err # ""
                                     /\ Identity(t, now).err # "")
    /\ [](last.pair # NoPair
             => /\ VerifyRefreshToken(last.pair.AccessToken, now).err # ""
                /\ VerifyAccessToken(last.pair.RefreshToken, now).err # "")
    /\ [][\A p \in Procs :
             /\ Calls(p, "RefreshTokens") /\ Args(p).token \in tokens
                    /\ Args(p).token.typ = "access"
                => /\ pc'[p] = "idle" /\ last'.err # ""
                   /\ users' = users /\ refresh_tokens' = refresh_tokens
                   /\ faults' = faults
             /\ ReturnedOp("VerifyToken") /\ last'.token.typ = "refresh"
                => last'.err # "" /\ users' = users /\ refresh_tokens' = refresh_tokens]_vars

\* RefreshTokens refused an access token that VerifyAccessToken still accepts
C10_Witness ==
    /\ last.op = "RefreshTokens" /\ last.token.typ = "access"
    /\ last.err = "ErrInvalidToken"
    /\ VerifyAccessToken(last.token, now).err = ""

\* the token is signed by the private key under a method the key function admits
WellSigned(token) == token.alg \in RSAMethods /\ token.sig = "PrivateKey"

(* C11: verifyToken returns ErrTokenExpired for a token that is well signed and past
   its expiry, and ErrInvalidToken for a token with an invalid signature or a
   non-RSA method, and for a well-signed unexpired token with the wrong type tag,
   a wrong issuer or an audience list without the configured audience; with
   either error it returns no claims. *)
C11_TwoFailureKinds ==
    ret.fn = "verifyToken"
        => LET token == arg.token
               out == ret.out
               defect == \/ token.typ # arg.expectedType
                         \/ token.iss # Issuer
                         \/ Audience \notin token.aud
           IN  /\ WellSigned(token) /\ ~(now < token.exp) => out.err = "ErrTokenExpired"
               /\ ~WellSigned(token) => out.err = "ErrInvalidToken"
               /\ WellSigned(token) /\ now < token.exp /\ defect
                      => out.err = "ErrInvalidToken"
               /\ WellSigned(token) /\ now < token.exp /\ ~defect
                      => out.err = "" /\ out.claims = token
               /\ out.err # "" => out.claims = NoToken

\* an expired, well-signed token was told apart from one signed by another key
C11_Witness ==
    /\ ret.fn = "verifyToken"
    /\ ret.out = Rejected("ErrTokenExpired")
    /\ verifyToken([arg.token EXCEPT !.sig = "OtherKey"], arg.expectedType, now)
           = Rejected("ErrInvalidToken")

(* C12: a Login for an unlocked, active or pending user with the right password
   goes on to issue a pair (unless reading the user fails); a failed counter reset
   does not end the call, and once the pair is generated the call returns it with
   no error whether or not the last-login update fails. *)
C12_SecondaryFailures ==
    [][\A p \in Procs :
          /\ Calls(p, "Login") /\ HasEmail(Args(p).email)
                /\ (LET u == GetUserByEmail(Args(p).email)
                    IN  /\ ~IsLocked(u, now)
                        /\ u.status \in {"active", "pending_verification"}
                        /\ ~WrongPassword(u, Args(p).password))
                => \/ pc'[p] \in {"L_reset", "L_create"}
                   \/ pc'[p] = "idle" /\ last'.via = "lookup_failed"
          /\ pc[p] = "L_reset" /\ pc'[p] # "L_reset"
                => pc'[p] = "L_create" /\ last' = last
          /\ pc[p] = "L_last" /\ pc'[p] # "L_last"
                => /\ pc'[p] = "idle"
                   /\ Out(last') = [err |-> "", pair |-> loc[p].pair, user |-> loc[p].user.id]
                   /\ loc[p].pair # NoPair]_vars

\* a Login returned its pair although the last-login update had failed
C12_Witness ==
    /\ last.op = "Login" /\ last.err = "" /\ last.pair # NoPair
    /\ faults > 0
    /\ users[last.user].last_login_at = NULL
    /\ \E r \in refresh_tokens : r.token_hash = HashToken(last.pair.RefreshToken)

(* C13, as stated: a Register whose password violates the policy creates no user,
   and every other Register creates exactly one user, pending_verification with
   role user; no Register issues a pair or writes a refresh-token row.  Stated
   for the Register calls during which no repository call fails. *)
C13_RegisterCreates ==
    [][ReturnedOp("Register") /\ faults' = faults
           => /\ refresh_tokens' = refresh_tokens /\ tokens' = tokens
              /\ uuids' = uuids /\ last'.pair = NoPair
              /\ IF ValidatePassword(Config, last'.password) # ""
                 THEN users' = users
                 ELSE /\ Len(users') = Len(users) + 1
                      /\ SubSeq(users', 1, Len(users)) = users
                      /\ users'[Len(users')].status = "pending_verification"
                      /\ users'[Len(users')].role = "user"]_vars

(* C13, amended: a Register whose password violates the policy returns that
   violation and creates no user; a Register that returns an error (the policy
   violation, or the store's error when the insert fails or the email is taken)
   creates no user; a Register that returns a user created exactly that one row,
   pending_verification with role user, and it does return one when the password
   is acceptable, the email is free and the insert does not fail.  No Register
   issues a pair or writes a refresh-token row.  A Login with the same email and
   password taken right after a Register that returned a user (no other request
   in flight or returned in between) passes every check; it ends early only when
   its own lookup fails in the store. *)
C13_RegisterOutcome ==
    [][/\ ReturnedOp("Register")
           => /\ refresh_tokens' = refresh_tokens /\ tokens' = tokens
              /\ uuids' = uuids /\ last'.pair = NoPair
              /\ (ValidatePassword(Config, last'.password) # ""
                     => last'.err = "PolicyViolation")
              /\ (last'.err # "" => users' = users /\ last'.user = 0)
              /\ (last'.err = ""
                     => /\ ValidatePassword(Config, last'.password) = ""
                        /\ ~HasEmail(last'.email)
                        /\ Len(users') = Len(users) + 1
                        /\ SubSeq(users', 1, Len(users)) = users
                        /\ last'.user = Len(users')
                        /\ users'[Len(users')].email = last'.email
                        /\ users'[Len(users')].status = "pending_verification"
                        /\ users'[Len(users')].role = "user"
                        /\ ~WrongPassword(users'[Len(users')], last'.password))
              /\ (ValidatePassword(Config, last'.password) = "" /\ ~HasEmail(last'.email)
                        /\ faults' = faults
                     => last'.err = "")
       /\ \A p \in Procs :
              (/\ Calls(p, "Login") /\ Quiet
               /\ last.op = "Register" /\ last.err = ""
               /\ Args(p).email = last.email /\ Args(p).password = last.password)
              => \/ pc'[p] = "L_create"
                 \/ pc'[p] = "idle" /\ last'.via = "lookup_failed"]_vars

\* a Login right after the Register of its user has returned a pair
C13_Witness ==
    /\ calls = 2 /\ Len(users) = 1
    /\ last.op = "Login" /\ last.err = "" /\ last.pair # NoPair
    /\ users[1].status = "pending_verification" /\ users[1].role = "user"
    /\ refresh_tokens # {}

(* C14: a Login for a user who is not locked and whose status is suspended or
   deleted returns ErrAccountInactive whatever the password (the right one
   included), returns no pair and no user, and leaves the users table and the
   refresh-token table as they were; it returns another error only when its
   lookup of the user fails in the store. *)
C14_InactiveRefused ==
    [][\A p \in Procs :
          (/\ Calls(p, "Login") /\ HasEmail(Args(p).email)
           /\ LET u == GetUserByEmail(Args(p).email)
              IN  ~IsLocked(u, now) /\ u.status \in {"suspended", "deleted"})
          => /\ pc'[p] = "idle"
             /\ last'.err = "ErrAccountInactive" \/ last'.via = "lookup_failed"
             /\ last'.err # ""
             /\ last'.pair = NoPair /\ last'.user = 0
             /\ users' = users
             /\ refresh_tokens' = refresh_tokens
             /\ tokens' = tokens]_vars

\* a Login with the right password was refused because the account is suspended
C14_Witness ==
    /\ last.op = "Login" /\ last.err = "ErrAccountInactive"
    /\ HasEmail(last.email)
    /\ GetUserByEmail(last.email).status = "suspended"
    /\ ~WrongPassword(GetUserByEmail(last.email), last.password)

\* h is a 64-character hexadecimal SHA-256 digest of a signed refresh token
IsDigest(h) ==
    /\ DOMAIN h = {"sha256", "hex"}
    /\ h.hex = 64
    /\ h.sha256.typ = "refresh"
    /\ h.sha256.sig = "PrivateKey"

\* the rows of table rows that hold the digest of token
RowsOf(rows, token) == {r \in rows : IsDigest(r.token_hash) /\ r.token_hash.sha256 = token}

(* C15: every row of the refresh-token table holds in token_hash a 64-character
   hexadecimal SHA-256 digest of a refresh token, never a token string; a row
   written by Login or RefreshTokens holds the digest of the refresh token of
   the pair generated by that call; Logout changes only the rows that hold the
   digest of the token presented, and RefreshTokens answers not-found, reuse or
   rotation from the rows that hold the digest of the token presented and
   revokes on rotation only those rows. *)
C15_OnlyDigests ==
    [][/\ \A r \in refresh_tokens' :
              /\ IsDigest(r.token_hash)
              /\ r.token_hash \notin tokens'
              /\ (\A q \in refresh_tokens : q.token_hash # r.token_hash)
                    => \E p \in Procs :
                          /\ pc[p] \in {"L_create", "R_create"}
                          /\ r.token_hash.sha256 \in
                                {loc'[p].pair.RefreshToken, last'.pair.RefreshToken}
       /\ ReturnedOp("Logout")
             => \A r \in refresh_tokens : r \in refresh_tokens' \/ r \in RowsOf(refresh_tokens, last'.token)
       /\ \A p \in Procs :
             /\ Calls(p, "RefreshTokens") /\ pc'[p] = "idle" /\ last'.via = "not_found"
                   => \A r \in RowsOf(refresh_tokens, last'.token) : r.expires_at <= now
             /\ Calls(p, "RefreshTokens") /\ pc'[p] = "R_revall"
                   => \E r \in RowsOf(refresh_tokens, loc'[p].token) : r.revoked
             /\ Calls(p, "RefreshTokens") /\ pc'[p] = "R_revoke"
                   => \E r \in RowsOf(refresh_tokens, loc'[p].token) : ~r.revoked
             /\ pc[p] = "R_revoke" /\ pc'[p] # "R_revoke"
                   => \A r \in refresh_tokens :
                         r \in refresh_tokens' \/ r \in RowsOf(refresh_tokens, loc[p].token)]_vars

\* a Logout has revoked the row that holds the digest of the token it was given
C15_Witness ==
    /\ last.op = "Logout" /\ last.err = ""
    /\ \E r \in RowsOf(refresh_tokens, last.token) : r.revoked
    /\ last.token \in tokens

(* C16: what VerifyToken returns is decided by the token, the configuration and
   the time alone: it is the outcome of verifying the token as an access token
   now, and an issued access token is accepted, with the identity of its
   claims, at every time before its expiry, whatever has happened to the user
   and to the refresh tokens since (Logout, LogoutAll, ChangePassword, reuse
   detection, a status change). *)
C16_Stateless ==
    [][ReturnedOp("VerifyToken")
          => LET t == last'.token
             IN  /\ last'.err = verifyToken(t, "access", now).err
                 /\ (t \in tokens /\ t.typ = "access" /\ now < t.exp)
                       => last'.err = "" /\ last'.user = t.uid
                 /\ users' = users /\ refresh_tokens' = refresh_tokens]_vars

\* an access token was accepted although every refresh token of its user is revoked
C16_Witness ==
    /\ last.op = "VerifyToken" /\ last.err = "" /\ last.token.typ = "access"
    /\ \E r \in refresh_tokens : r.user_id = last.user /\ r.revoked
    /\ \A r \in refresh_tokens : r.user_id = last.user => r.revoked

\* Verify found no match and no error
NoMatch == [ok |-> FALSE, err |-> "", panic |-> ""]

(* C17: the string Hash returns for a password verifies with that password
   (true, no error) and with every other password gives false and no error;
   stated for the string in hand when Hash returns, and for each Verify call on
   a string that Hash returned for some password and salt. *)
C17_RoundTrip ==
    /\ ret # NoRet /\ arg.fn = "Hash"
          => \A pw \in HashPasswords :
                Verify(pw, ret.out) = IF pw = arg.password THEN Match ELSE NoMatch
    /\ ret # NoRet /\ arg.fn = "Verify"
          => \A pw \in HashPasswords, r \in Rands :
                arg.encodedHash = Hash(pw, r)
                  => ret.out = IF pw = arg.password THEN Match ELSE NoMatch

\* Verify has matched a password with the string Hash made from it
C17_Witness ==
    /\ ret # NoRet /\ arg.fn = "Verify"
    /\ arg.encodedHash \in Hashed
    /\ arg.password # <<>>
    /\ ret.out = Match

(* C18: Verify on a stored hash whose parameter segment (m=, t=, p=) is
   corrupted returns a decode error for every password: it never matches, never
   reports a plain mismatch without an error, and does not panic. *)
C18_CorruptedRejected ==
    (ret # NoRet /\ arg.fn = "Verify" /\ arg.encodedHash \in Corrupted)
        => ret.out.err # "" /\ ~ret.out.ok /\ ret.out.panic = ""

(* C19: ValidatePassword returns the first rule the password fails, in the
   order minimum length, uppercase, lowercase, digit, special character; a class
   rule counts only when its own toggle is on, whatever the other toggles; it
   accepts exactly when the password fails no rule that is on. *)
Rules == <<"min_length", "uppercase", "lowercase", "digit", "special">>

Fails(config, password, rule) ==
    CASE rule = "min_length" -> len(password) < config.PasswordMinLength
      [] rule = "uppercase" -> config.PasswordRequireUpper /\ \A i \in DOMAIN password : password[i] \notin Upper
      [] rule = "lowercase" -> config.PasswordRequireLower /\ \A i \in DOMAIN password : password[i] \notin Lower
      [] rule = "digit" -> config.PasswordRequireDigit /\ \A i \in DOMAIN password : password[i] \notin Digit
      [] rule = "special" -> config.PasswordRequireSpecial /\ \A i \in DOMAIN password : password[i] \notin Special

C19_FirstViolated ==
    (ret # NoRet /\ arg.fn = "ValidatePassword")
        => LET failed == {k \in DOMAIN Rules : Fails(arg.config, arg.password, Rules[k])}
           IN  /\ ret.out = "" <=> failed = {}
               /\ failed # {}
                     => \E k \in failed : /\ ret.out = Rules[k]
                                          /\ \A j \in failed : k <= j

\* a password that fails two class rules that are both on has been refused for the
\* lowercase rule, the earlier of the two
C19_Witness ==
    /\ ret # NoRet /\ arg.fn = "ValidatePassword"
    /\ arg.config.PasswordRequireLower /\ arg.config.PasswordRequireDigit
    /\ Fails(arg.config, arg.password, "lowercase")
    /\ Fails(arg.config, arg.password, "digit")
    /\ ret.out = "lowercase"

(* C20: however Login calls for one user interleave, a wrong-password Login whose
   increment brings the stored failed_login_attempts to MaxFailedAttempts or more
   does not return before locked_until is in the future.  Stated for the calls
   all of whose repository calls succeed. *)
C20_LockFollowsCounter ==
    [][\A p \in Procs :
          /\ pc[p] = "L_incr" /\ faults' = 0
          /\ users'[loc[p].userID].failed_login_attempts >= MaxFailedAttempts
          /\ pc'[p] = "idle"
          => IsLocked(users'[loc[p].userID], now')]_vars

(* C21: however a successful ChangePassword and the RefreshTokens calls of the
   same user interleave, after they have returned the user holds no unrevoked
   refresh token that stems from a session opened before the password change.
   Stated for the step in which RefreshTokens stores the replacement of a token
   issued before the time of the change, with no ChangePassword of that user
   still in flight, in runs in which no repository call fails: the row it stores
   is not left unrevoked. *)
C21_ChangeEndsSessions ==
    [][\A p \in Procs :
          /\ pc[p] = "R_create" /\ pc'[p] = "idle" /\ faults' = 0
          /\ loc[p].token.uid \in 1..Len(users)
          /\ users[loc[p].token.uid].password_changed_at # NULL
          /\ loc[p].token.iat < users[loc[p].token.uid].password_changed_at
          /\ \A q \in Procs :
                pc[q] \in {"C_upd", "C_rev"} => loc[q].userID # loc[p].token.uid
          => \A r \in refresh_tokens' :
                r.token_hash = HashToken(last'.pair.RefreshToken) => r.revoked]_vars

(* C22: RefreshTokens leaves no partial rotation.  One request at a time, when a
   RefreshTokens call that went past the revoked check returns, the presented
   token is revoked only if the call returns a pair and the row of the pair's
   refresh token is stored; a call that returns an error has left the row of the
   presented token as it was, unrevoked. *)
C22_NoPartialRotation ==
    [][\A p \in Procs :
          (pc[p] = "R_create" /\ pc'[p] = "idle" /\ RowOf(refresh_tokens', loc[p].token).revoked)
          => /\ last'.err = ""
             /\ \E r \in refresh_tokens' :
                    r.token_hash = HashToken(last'.pair.RefreshToken)]_vars

(* C23: RefreshTokens returns a TokenPair only if, when it looked the token up,
   the table held a row with the digest of the presented token, revoked = FALSE
   and expires_at > now: only such a lookup leads to the rotation, only the
   rotation leads to the new pair, and a call returns a pair only from there. *)
C23_ExchangeNeedsValidRow ==
    [][\A p \in Procs :
          /\ (pc[p] # "R_revoke" /\ pc'[p] = "R_revoke")
             => /\ Calls(p, "RefreshTokens")
                /\ Usable(RowOf(refresh_tokens, loc'[p].token), now)
          /\ (pc[p] # "R_create" /\ pc'[p] = "R_create")
             => /\ pc[p] = "R_revoke"
                /\ loc'[p].token = loc[p].token
          /\ (pc'[p] = "idle" /\ ReturnedOp("RefreshTokens") /\ last'.pair # NoPair
                /\ (pc[p] # "idle" \/ Calls(p, "RefreshTokens")))
             => pc[p] = "R_create" /\ last'.token = loc[p].token]_vars

\* a RefreshTokens call has returned a pair
C23_Witness == last.op = "RefreshTokens" /\ last.err = "" /\ last.pair # NoPair

\* the lock of user row u has run out at time t: locked_until is set and not after t
LockElapsed(u, t) == u.locked_until # NULL /\ u.locked_until <= t

(* C24: once the clock has reached locked_until, a Login with the correct password
   on an active or pending_verification account is let through to the success
   path; the success path ends in the return of the pair, and when its statements
   succeed the stored row then has failed_login_attempts = 0 and locked_until
   cleared. One request at a time. *)
C24_LazyUnlock ==
    [][\A p \in Procs :
          /\ (/\ Calls(p, "Login")
              /\ HasEmail(Args(p).email)
              /\ LockElapsed(GetUserByEmail(Args(p).email), now)
              /\ GetUserByEmail(Args(p).email).status \in {"active", "pending_verification"}
              /\ ~WrongPassword(GetUserByEmail(Args(p).email), Args(p).password)
              /\ faults' = faults)
             => pc'[p] \in {"L_reset", "L_create"}
          /\ (pc[p] = "L_reset" /\ pc'[p] # pc[p])
             => pc'[p] = "L_create"
          /\ (pc[p] = "L_create" /\ pc'[p] # pc[p] /\ faults' = faults)
             => pc'[p] = "L_last"
          /\ (pc[p] = "L_last" /\ pc'[p] # pc[p])
             => /\ pc'[p] = "idle" /\ last'.err = "" /\ last'.pair = loc[p].pair
                /\ faults' = 0
                   => /\ users'[loc[p].userID].failed_login_attempts = 0
                      /\ users'[loc[p].userID].locked_until = NULL]_vars

\* a Login read a row whose lock had run out, and is past the reset of that row
C24_Witness ==
    /\ pc[1] = "L_last" /\ faults = 0
    /\ LockElapsed(loc[1].user, now)
    /\ users[loc[1].userID].failed_login_attempts = 0
    /\ users[loc[1].userID].locked_until = NULL

(* C25: an email verification changes the status of a user only from
   pending_verification to active: it leaves the status of a suspended or deleted
   user as it is. *)
C25_VerifyOnlyActivatesPending ==
    [][ReturnedOp("UpdateEmailVerified")
          => \A i \in 1..Len(users) :
                users'[i].status # users[i].status
                => users[i].status = "pending_verification" /\ users'[i].status = "active"]_vars

(* C26: DeleteExpired removes a refresh-token row only when now is past its
   expires_at plus the retention window, and every row that has not yet expired,
   revoked or not, is still in the table afterwards. *)
C26_RetentionBeforeDelete ==
    [][ReturnedOp("DeleteExpired")
          => /\ \A r \in refresh_tokens \ refresh_tokens' :
                   now > r.expires_at + RetentionWindow
             /\ \A r \in refresh_tokens : r.expires_at > now => r \in refresh_tokens']_vars

(* C27: revocation is monotonic. No step of a Login, RefreshTokens, Logout,
   LogoutAll, ChangePassword or Register call leaves a row unrevoked whose
   token_hash was revoked before the step, and a RefreshTokens call that finds the
   row of the presented token revoked never enters the rotation: it returns
   without a pair, at once or after the revoke-all of the reuse branch. One request
   at a time. *)
C27_RevokedStaysRevoked ==
    [][/\ \A r \in refresh_tokens : \A r2 \in refresh_tokens' :
             (r.revoked /\ r2.token_hash = r.token_hash) => r2.revoked
       /\ \A p \in Procs :
             /\ (Calls(p, "RefreshTokens") /\ RowOf(refresh_tokens, Args(p).token).revoked)
                => /\ pc'[p] \in {"idle", "R_revall"}
                   /\ pc'[p] = "idle" => last'.pair = NoPair
             /\ (pc[p] = "R_revall" /\ pc'[p] # pc[p])
                => pc'[p] = "idle" /\ last'.pair = NoPair]_vars

\* a revoked token was presented to RefreshTokens, refused, and its row is still revoked
C27_Witness ==
    /\ last.op = "RefreshTokens" /\ last.via = "reuse" /\ last.pair = NoPair
    /\ RowOf(refresh_tokens, last.token).revoked

\* the identity a token carries: user ID, email, email-verified flag and role
Carried(token) == [uid |-> token.uid, email |-> token.email, ev |-> token.ev, role |-> token.role]

(* C28: RefreshTokens leaves the users table as it is at every one of its steps;
   a presented token that verifies and has an unrevoked, unexpired row is taken to
   the rotation whatever the users table holds for its user; and both tokens of
   the returned pair carry the user ID, email, email-verified flag and role of the
   presented token, not those of the stored user. *)
C28_RefreshIgnoresUsers ==
    [][\A p \in Procs :
          /\ (\/ Calls(p, "RefreshTokens")
              \/ pc[p] \in {"R_revall", "R_revoke", "R_create"} /\ pc'[p] # pc[p])
             => users' = users
          /\ (/\ Calls(p, "RefreshTokens")
              /\ VerifyRefreshToken(Args(p).token, now).err = ""
              /\ Usable(RowOf(refresh_tokens, Args(p).token), now)
              /\ faults' = faults)
             => pc'[p] = "R_revoke"
          /\ (pc[p] = "R_revoke" /\ pc'[p] # pc[p]) => pc'[p] = "R_create"
          /\ (pc[p] = "R_create" /\ pc'[p] # pc[p] /\ faults' = faults)
             => /\ pc'[p] = "idle" /\ last'.err = ""
                /\ last'.pair.AccessToken.typ = "access"
                /\ last'.pair.RefreshToken.typ = "refresh"
          /\ (pc[p] = "R_create" /\ pc'[p] = "idle" /\ last'.err = "")
             => /\ Carried(last'.pair.AccessToken) = Carried(loc[p].token)
                /\ Carried(last'.pair.RefreshToken) = Carried(loc[p].token)]_vars

\* RefreshTokens returned a pair with the email-verified flag of the presented
\* token for a user whose stored flag has changed since
C28_Witness ==
    /\ last.op = "RefreshTokens" /\ last.err = "" /\ last.pair # NoPair
    /\ last.token.uid \in 1..Len(users)
    /\ users[last.token.uid].email_verified = TRUE
    /\ last.pair.AccessToken.ev = FALSE /\ last.pair.RefreshToken.ev = FALSE

(* C29: the lapse of a lock does not reset the counter. While no repository call
   has failed, a stored lock, elapsed or not, comes with a stored counter at or
   above MaxFailedAttempts; a clock step changes no user row; and a wrong-password
   Login on an account whose lock has elapsed ends with the account locked again.
   One request at a time. *)
C29_OneMoreLocksAgain ==
    [][/\ faults = 0
          => \A i \in 1..Len(users) :
                users[i].locked_until # NULL
                => users[i].failed_login_attempts >= MaxFailedAttempts
       /\ now' # now => users' = users
       /\ \A p \in Procs :
             /\ (/\ Calls(p, "Login")
                 /\ HasEmail(Args(p).email)
                 /\ LockElapsed(GetUserByEmail(Args(p).email), now)
                 /\ GetUserByEmail(Args(p).email).status \in {"active", "pending_verification"}
                 /\ WrongPassword(GetUserByEmail(Args(p).email), Args(p).password)
                 /\ faults' = 0)
                => pc'[p] = "L_incr"
             /\ (pc[p] = "L_incr" /\ pc'[p] # pc[p] /\ LockElapsed(loc[p].user, now)
                   /\ faults' = 0)
                => pc'[p] = "L_lock"
             /\ (pc[p] = "L_lock" /\ pc'[p] # pc[p] /\ faults' = 0)
                => /\ pc'[p] = "idle" /\ last'.err = "ErrInvalidCredentials"
                   /\ users'[loc[p].userID].locked_until = now + LockoutDuration
                   /\ users'[loc[p].userID].locked_until > now']_vars

\* a wrong-password Login on an elapsed lock has locked the account again
C29_Witness ==
    /\ last.op = "Login" /\ last.via = "wrong_password" /\ faults = 0
    /\ last.userID \in 1..Len(users)
    /\ users[last.userID].failed_login_attempts > MaxFailedAttempts
    /\ users[last.userID].locked_until > now

\* the row of refreshToken was revoked by a Logout and has not expired at time t
LoggedOut(rows, refreshToken, t) ==
    /\ RowOf(rows, refreshToken) # NoRow
    /\ RowOf(rows, refreshToken).revoked
    /\ RowOf(rows, refreshToken).expires_at > t

(* C30: a refresh token whose row is revoked (by Logout as by rotation) and not
   yet expired, presented to RefreshTokens, takes the reuse branch: the call
   returns ErrInvalidToken without a pair, and when its revoke-all statement
   succeeds no refresh token of that user is left unrevoked. One request at a
   time. *)
C30_LoggedOutTokenIsReuse ==
    [][\A p \in Procs :
          /\ (/\ Calls(p, "RefreshTokens")
              /\ VerifyRefreshToken(Args(p).token, now).err = ""
              /\ LoggedOut(refresh_tokens, Args(p).token, now)
              /\ faults' = faults)
             => pc'[p] = "R_revall"
          /\ (pc[p] = "R_revall" /\ pc'[p] # pc[p])
             => /\ pc'[p] = "idle"
                /\ last'.via = "reuse" /\ last'.err = "ErrInvalidToken" /\ last'.pair = NoPair
                /\ faults' = faults
                   => \A r \in refresh_tokens' : r.user_id = loc[p].token.uid => r.revoked]_vars

\* a token revoked by Logout was presented: it was refused as reuse and a second,
\* until then unrevoked token of the same user is now revoked with it
C30_Witness ==
    /\ last.op = "RefreshTokens" /\ last.via = "reuse" /\ last.err = "ErrInvalidToken"
    /\ \E r \in refresh_tokens :
          /\ r.user_id = last.token.uid /\ r.token_hash # HashToken(last.token)
          /\ r.revoked /\ r.revoked_at > RowOf(refresh_tokens, last.token).revoked_at
    /\ \A r \in refresh_tokens : r.user_id = last.token.uid => r.revoked

====
